---------------------------- MODULE Spec2Model ----------------------------
(***************************************************************************)
(* Model of the judicial-filings dashboard (src/dashboardmap.py, whose     *)
(* first 500 lines src/Dashboard.py duplicates): the CSV loader, the       *)
(* sidebar filters, the frequency tables, the class/subject analyses, the  *)
(* municipality counts and the points, sizes and colour domain of the map. *)
(*                                                                         *)
(* A string is a sequence of one-character strings, so that the string     *)
(* operations of the script (startswith, replace, strip, the `in`          *)
(* substring test, number parsing) are computed rather than assumed.       *)
(* A missing value (pandas NaN / Python None) is the one-element sequence  *)
(* NaN, which no character sequence equals.                                *)
(***************************************************************************)
EXTENDS Integers, Sequences, FiniteSets, TLC

(* ------------------------------ bounds -------------------------------- *)

\* Largest number of rows of the CSV file.
MaxRows == 3

(* ------------------------------ strings ------------------------------- *)

NaN == <<"NaN">>

\* Characters str.strip() removes.
WhitespaceChars == {" ", "\t", "\n", "\r"}

Digits == <<"0", "1", "2", "3", "4", "5", "6", "7", "8", "9">>

IsDigit(c) == \E i \in 1..10 : Digits[i] = c

DigitVal(c) == (CHOOSE i \in 1..10 : Digits[i] = c) - 1

\* Python: s.startswith(p)
StartsWith(s, p) == Len(s) >= Len(p) /\ SubSeq(s, 1, Len(p)) = p

\* Python: sub in s
Contains(s, sub) ==
    \E i \in 1..(Len(s) - Len(sub) + 1) : SubSeq(s, i, i + Len(sub) - 1) = sub

\* Python: s.replace(old, new), every non-overlapping occurrence, left to
\* right (old is non-empty).
RECURSIVE Replace(_, _, _)
Replace(s, old, new) ==
    IF Len(s) < Len(old) THEN s
    ELSE IF SubSeq(s, 1, Len(old)) = old
         THEN new \o Replace(SubSeq(s, Len(old) + 1, Len(s)), old, new)
         ELSE <<Head(s)>> \o Replace(Tail(s), old, new)

RECURSIVE LStrip(_)
LStrip(s) ==
    IF s # <<>> /\ Head(s) \in WhitespaceChars THEN LStrip(Tail(s)) ELSE s

RECURSIVE RStrip(_)
RStrip(s) ==
    IF s # <<>> /\ s[Len(s)] \in WhitespaceChars
    THEN RStrip(SubSeq(s, 1, Len(s) - 1))
    ELSE s

\* Python: s.strip()
Strip(s) == RStrip(LStrip(s))

\* A cell that holds an integer instead of a text (a column pandas read as
\* numbers): the natural number n.
Number(n) == <<"int", n>>

IsNumber(v) == Len(v) = 2 /\ v[1] = "int"

\* The decimal digits of a natural number.
RECURSIVE NatToDigits(_)
NatToDigits(n) ==
    IF n < 10 THEN <<Digits[n + 1]>>
    ELSE Append(NatToDigits(n \div 10), Digits[(n % 10) + 1])

\* Python: str(v), the text itself, or the digits of an integer.
str(v) == IF IsNumber(v) THEN NatToDigits(v[2]) ELSE v

(* --------------------------- sequence helpers ------------------------- *)

\* Boolean-mask row selection, df[mask], is SelectSeq: the rows that satisfy
\* the mask, in their original order and with their multiplicity.

\* The elements of a sequence.
Range(s) == {s[i] : i \in 1..Len(s)}

\* Series.min() / Series.max() of a non-empty set of integers.
Min(S) == CHOOSE x \in S : \A y \in S : x <= y
Max(S) == CHOOSE x \in S : \A y \in S : x >= y

\* All the orders in which the elements of the finite set S can be listed.
RECURSIVE Orderings(_)
Orderings(S) ==
    IF S = {} THEN {<<>>}
    ELSE UNION {{<<x>> \o t : t \in Orderings(S \ {x})} : x \in S}

(* ------------------------- reading the CSV file ----------------------- *)

\* The columns of the file.
Columns == {"Processo", "Classe", "Assunto", "Comarca", "Ano"}

\* The field texts pandas.read_csv reads as a missing value (its default
\* list); every other text, a whitespace-only one included, is kept as it is.
na_values ==
    { <<>>,
      <<"#", "N", "/", "A">>,
      <<"#", "N", "/", "A", " ", "N", "/", "A">>,
      <<"#", "N", "A">>,
      <<"-", "1", ".", "#", "I", "N", "D">>,
      <<"-", "1", ".", "#", "Q", "N", "A", "N">>,
      <<"-", "N", "a", "N">>,
      <<"-", "n", "a", "n">>,
      <<"1", ".", "#", "I", "N", "D">>,
      <<"1", ".", "#", "Q", "N", "A", "N">>,
      <<"<", "N", "A", ">">>,
      <<"N", "/", "A">>,
      <<"N", "A">>,
      <<"N", "U", "L", "L">>,
      <<"N", "a", "N">>,
      <<"N", "o", "n", "e">>,
      <<"n", "/", "a">>,
      <<"n", "a", "n">>,
      <<"n", "u", "l", "l">> }

\* pd.read_csv, one field: the text, or NaN for a missing value.
read_csv_field(text) == IF text \in na_values THEN NaN ELSE text

\* pd.read_csv: a file is a sequence of rows, a row gives a text per column.
read_csv(file) ==
    [i \in 1..Len(file) |-> [c \in Columns |-> read_csv_field(file[i][c])]]

(* ------------------------------ numbers ------------------------------- *)

\* A float is kept exactly as its sign, its integer part and whether its
\* fractional part is non-zero; isnan marks the float NaN.
NumNaN == [isnan |-> TRUE, neg |-> FALSE, int |-> 0, frac |-> FALSE]

AllDigits(s) == \A i \in 1..Len(s) : IsDigit(s[i])

RECURSIVE DigitsValue(_)
DigitsValue(s) ==
    IF s = <<>> THEN 0
    ELSE 10 * DigitsValue(SubSeq(s, 1, Len(s) - 1)) + DigitVal(s[Len(s)])

\* An unsigned decimal numeral: digits, with at most one decimal point.
ParseUnsigned(s) ==
    LET dots == {i \in 1..Len(s) : s[i] = "."} IN
    IF s # <<>> /\ AllDigits(s)
    THEN [isnan |-> FALSE, neg |-> FALSE, int |-> DigitsValue(s), frac |-> FALSE]
    ELSE IF Cardinality(dots) = 1
         THEN LET d  == CHOOSE i \in dots : TRUE
                  ip == SubSeq(s, 1, d - 1)
                  fp == SubSeq(s, d + 1, Len(s))
              IN  IF AllDigits(ip) /\ AllDigits(fp) /\ (ip # <<>> \/ fp # <<>>)
                  THEN [isnan |-> FALSE, neg |-> FALSE, int |-> DigitsValue(ip),
                        frac |-> \E i \in 1..Len(fp) : fp[i] # "0"]
                  ELSE NumNaN
         ELSE NumNaN

\* pd.to_numeric(errors='coerce'), one value: a decimal numeral becomes its
\* number, a missing value or any other text becomes NaN; nothing raises.
\* (Texts are over digits, ".", "-" and letters that spell no float.)
to_numeric(v) ==
    IF v = NaN \/ v = <<>> THEN NumNaN
    ELSE IF Head(v) = "-"
         THEN LET u == ParseUnsigned(Tail(v)) IN
              IF u.isnan THEN NumNaN ELSE [u EXCEPT !.neg = TRUE]
         ELSE ParseUnsigned(v)

\* x >= n and x <= n for a float x and a natural number n; a comparison
\* with NaN is false.
FloatGE(x, n) == ~x.isnan /\ ~x.neg /\ x.int >= n
FloatLE(x, n) ==
    ~x.isnan /\ (x.neg \/ x.int < n \/ (x.int = n /\ ~x.frac))

\* Series.fillna(0).astype(int): NaN becomes 0, a float is truncated
\* towards zero.
fillna0_astype_int(x) ==
    IF x.isnan THEN 0 ELSE IF x.neg THEN 0 - x.int ELSE x.int

(* ------------------------------ load_data ----------------------------- *)

\* A loader that keeps the rows without a case identifier.
ProcessoPresent_keep_all(r) == TRUE

\* A loader that also drops the identifiers that are blank once trimmed.
ProcessoPresent_trimmed(r) == r.Processo # NaN /\ Strip(r.Processo) # <<>>

\* dropna(subset=['Processo'], how='all'): the row is kept when its case
\* identifier is not a missing value.
ProcessoPresent(r) == r.Processo # NaN

\* A range test that forgets the upper bound.
AnoInRange_no_upper(r) == FloatGE(r.Ano, 1900)

\* A range test whose lower bound is 0.
AnoInRange_from_zero(r) == FloatGE(r.Ano, 0) /\ FloatLE(r.Ano, 2100)

\* (df['Ano'] >= 1900) & (df['Ano'] <= 2100)
AnoInRange(r) == FloatGE(r.Ano, 1900) /\ FloatLE(r.Ano, 2100)

\* df[df['Ano'] > 0]
AnoPositive(r) == r.Ano > 0

\* The data frame the loader returns for a file.
load_data(file) ==
    LET df0 == read_csv(file)
        df1 == SelectSeq(df0, ProcessoPresent)
        df2 == [i \in 1..Len(df1) |-> [df1[i] EXCEPT !.Ano = to_numeric(@)]]
        df3 == SelectSeq(df2, AnoInRange)
        df4 == [i \in 1..Len(df3) |->
                   [df3[i] EXCEPT !.Ano = fillna0_astype_int(@)]]
    IN  SelectSeq(df4, AnoPositive)

\* A column of a data frame.
Column(d, c) == [i \in 1..Len(d) |-> d[i][c]]

(* ------------------------------ the filters --------------------------- *)

\* The selectbox entry that stands for no location filter.
Todos == <<"T", "o", "d", "o", "s">>

\* int(df['Ano'].min()), int(df['Ano'].max())
min_year(d) == Min(Range(Column(d, "Ano")))
max_year(d) == Max(Range(Column(d, "Ano")))

\* The options of the location selectbox: 'Todos', then the labels of the
\* loaded frame (sorted in the code; the order plays no role here).
comarcas(d) == {Todos} \cup (Range(Column(d, "Comarca")) \ {NaN})

\* Filters that narrow the frame of the run before instead of a fresh copy.
filter_source_stale(loaded, previous) ==
    IF previous = <<>> THEN loaded ELSE previous

\* filtered_df = df.copy(): the frame the filters start from is the loaded
\* frame, whatever an earlier run has computed.
filter_source(loaded, previous) == loaded

\* A year filter that excludes the last year of the range.
year_filter_exclusive(d, yr) ==
    LET InYears(r) == r.Ano >= yr[1] /\ r.Ano < yr[2] IN SelectSeq(d, InYears)

\* A year filter that excludes the first year of the range.
year_filter_after(d, yr) ==
    LET InYears(r) == r.Ano > yr[1] /\ r.Ano <= yr[2] IN SelectSeq(d, InYears)

\* A year filter whose slice loses the first row it keeps.
year_filter_skip_first(d, yr) ==
    LET InYears(r) == r.Ano >= yr[1] /\ r.Ano <= yr[2]
        kept == SelectSeq(d, InYears)
    IN  IF kept = <<>> THEN kept ELSE Tail(kept)

\* (filtered_df['Ano'] >= year_range[0]) & (filtered_df['Ano'] <= year_range[1])
year_filter(d, yr) ==
    LET InYears(r) == r.Ano >= yr[1] /\ r.Ano <= yr[2] IN SelectSeq(d, InYears)

\* if selected_comarca != 'Todos': filtered_df[filtered_df['Comarca'] == ...]
comarca_filter(d, sel) ==
    LET SameLabel(r) == r.Comarca = sel IN
    IF sel # Todos THEN SelectSeq(d, SameLabel) ELSE d

\* The working set for the filter parameters.
apply_filters(d, yr, sel) == comarca_filter(year_filter(d, yr), sel)

(* --------------------------- frequency tables ------------------------- *)

\* A count that keeps the missing values (dropna=False).
dropna_keep(col) == col

\* Series.dropna(): the column without its missing values.
dropna(col) == LET Present(x) == x # NaN IN SelectSeq(col, Present)

\* The values of a column, each once, in order of first occurrence.
RECURSIVE unique(_)
unique(col) ==
    IF col = <<>> THEN <<>>
    ELSE LET init == unique(SubSeq(col, 1, Len(col) - 1))
             x    == col[Len(col)]
         IN  IF x \in Range(init) THEN init ELSE Append(init, x)

\* A count that misses one occurrence of each key.
counts_table_less_one(col) ==
    LET keys == unique(col) IN
    [i \in 1..Len(keys) |->
        [key |-> keys[i],
         count |-> Cardinality({j \in 1..Len(col) : col[j] = keys[i]}) - 1]]

\* The (key, count) pairs of a column, in order of first occurrence.
counts_table(col) ==
    LET keys == unique(col) IN
    [i \in 1..Len(keys) |->
        [key |-> keys[i],
         count |-> Cardinality({j \in 1..Len(col) : col[j] = keys[i]})]]

IsCountDescending(t) ==
    \A i \in 1..(Len(t) - 1) : t[i].count >= t[i + 1].count

\* The sort of value_counts: the table by count, largest first.  It is
\* pandas' default quicksort, which is not stable, so the order of keys with
\* equal counts is not fixed: every count-descending order is a possible
\* result.
sort_by_count(t) == {s \in Orderings(Range(t)) : IsCountDescending(s)}

\* Series.value_counts() of a column of an integer dtype (no missing value).
value_counts_int(col) == sort_by_count(counts_table(col))

\* Series.value_counts() of a column of texts: missing values are dropped
\* (dropna=True) before the counting.
value_counts(col) == sort_by_count(counts_table(dropna(col)))

\* Series.sort_index(): the table ordered by ascending key (integer keys).
sort_index(t) ==
    CHOOSE s \in Orderings(Range(t)) :
        \A i \in 1..(Len(s) - 1) : s[i].key < s[i + 1].key

\* Series.head(n)
head(t, n) == SubSeq(t, 1, IF n < Len(t) THEN n ELSE Len(t))

\* The number of subjects of the ranking chart, head(10).
TopN == 10

(* --------------------------- municipalities --------------------------- *)

\* The two spellings of the prefix 'district of'.
ComarcaDePrefix == <<"C", "o", "m", "a", "r", "c", "a", " ", "d", "e", " ">>
ComarcaDePrefixUpper == <<"C", "o", "m", "a", "r", "c", "a", " ", "D", "e", " ">>

\* The court names that are not municipalities.
tribunais ==
    << <<"T", "r", "i", "b", "u", "n", "a", "l", " ", "D", "e", " ", "J", "u", "s", "t", "i", "ç", "a">>,
       <<"T", "u", "r", "m", "a", "s", " ", "R", "e", "c", "u", "r", "s", "a", "i", "s", " ", "d", "o", "s", " ", "J", "u", "i", "z", "a", "d", "o", "s", " ", "E", "s", "p", "e", "c", "i", "a", "i", "s">>,
       <<"S", "u", "p", "r", "e", "m", "o", " ", "T", "r", "i", "b", "u", "n", "a", "l", " ", "F", "e", "d", "e", "r", "a", "l">>,
       <<"S", "e", "ç", "ã", "o", " ", "J", "u", "d", "i", "c", "i", "á", "r", "i", "a", " ", "d", "o", " ", "A", "m", "a", "z", "o", "n", "a", "s">>,
       <<"T", "r", "i", "b", "u", "n", "a", "l", " ", "R", "e", "g", "i", "o", "n", "a", "l", " ", "F", "e", "d", "e", "r", "a", "l", " ", "d", "a", " ", "1", "ª", " ", "R", "e", "g", "i", "ã", "o">>,
       <<"S", "u", "p", "e", "r", "i", "o", "r", " ", "T", "r", "i", "b", "u", "n", "a", "l", " ", "D", "e", " ", "J", "u", "s", "t", "i", "ç", "a">>,
       <<"T", "r", "i", "b", "u", "n", "a", "l", " ", "D", "e", " ", "J", "u", "s", "t", "i", "ç", "a", " ", "M", "i", "l", "i", "t", "a", "r">>,
       <<"T", "r", "i", "b", "u", "n", "a", "l", " ", "R", "e", "g", "i", "o", "n", "a", "l", " ", "F", "e", "d", "e", "r", "a", "l">>,
       <<"T", "r", "i", "b", "u", "n", "a", "l", " ", "R", "e", "g", "i", "o", "n", "a", "l", " ", "d", "o", " ", "T", "r", "a", "b", "a", "l", "h", "o">>,
       <<"T", "S", "T">>,
       <<"S", "T", "J">>,
       <<"S", "T", "F">>,
       <<"T", "J", "M">>,
       <<"T", "R", "F">>,
       <<"T", "R", "T">>,
       <<"C", "o", "m", "a", "r", "c", "a", " ", "D", "e", " ", "B", "r", "a", "s", "í", "l", "i", "a">> >>

\* The coordinates of the municipalities, in ten-thousandths of a degree.
MunicipioNames ==
    { <<"M", "a", "n", "a", "u", "s">>,
      <<"P", "a", "r", "i", "n", "t", "i", "n", "s">>,
      <<"I", "t", "a", "c", "o", "a", "t", "i", "a", "r", "a">>,
      <<"M", "a", "n", "a", "c", "a", "p", "u", "r", "u">>,
      <<"C", "o", "a", "r", "i">>,
      <<"T", "e", "f", "é">>,
      <<"T", "a", "b", "a", "t", "i", "n", "g", "a">>,
      <<"M", "a", "u", "é", "s">>,
      <<"H", "u", "m", "a", "i", "t", "á">>,
      <<"L", "á", "b", "r", "e", "a">>,
      <<"S", "ã", "o", " ", "G", "a", "b", "r", "i", "e", "l", " ", "d", "a", " ", "C", "a", "c", "h", "o", "e", "i", "r", "a">>,
      <<"B", "e", "n", "j", "a", "m", "i", "n", " ", "C", "o", "n", "s", "t", "a", "n", "t">>,
      <<"B", "o", "r", "b", "a">>,
      <<"A", "u", "t", "a", "z", "e", "s">>,
      <<"N", "o", "v", "a", " ", "O", "l", "i", "n", "d", "a", " ", "d", "o", " ", "N", "o", "r", "t", "e">>,
      <<"C", "a", "r", "e", "i", "r", "o">>,
      <<"I", "r", "a", "n", "d", "u", "b", "a">>,
      <<"P", "r", "e", "s", "i", "d", "e", "n", "t", "e", " ", "F", "i", "g", "u", "e", "i", "r", "e", "d", "o">>,
      <<"R", "i", "o", " ", "P", "r", "e", "t", "o", " ", "d", "a", " ", "E", "v", "a">>,
      <<"N", "o", "v", "o", " ", "A", "i", "r", "ã", "o">>,
      <<"S", "a", "n", "t", "a", " ", "I", "s", "a", "b", "e", "l", " ", "d", "o", " ", "R", "i", "o", " ", "N", "e", "g", "r", "o">>,
      <<"B", "a", "r", "c", "e", "l", "o", "s">>,
      <<"N", "o", "v", "o", " ", "A", "r", "i", "p", "u", "a", "n", "ã">>,
      <<"A", "p", "u", "í">>,
      <<"M", "a", "n", "i", "c", "o", "r", "é">>,
      <<"B", "e", "r", "u", "r", "i">>,
      <<"A", "n", "o", "r", "i">>,
      <<"C", "o", "d", "a", "j", "á", "s">>,
      <<"C", "a", "a", "p", "i", "r", "a", "n", "g", "a">>,
      <<"U", "r", "u", "c", "u", "r", "i", "t", "u", "b", "a">>,
      <<"U", "r", "u", "c", "a", "r", "á">>,
      <<"S", "ã", "o", " ", "S", "e", "b", "a", "s", "t", "i", "ã", "o", " ", "d", "o", " ", "U", "a", "t", "u", "m", "ã">>,
      <<"I", "t", "a", "p", "i", "r", "a", "n", "g", "a">>,
      <<"S", "i", "l", "v", "e", "s">>,
      <<"B", "a", "r", "r", "e", "i", "r", "i", "n", "h", "a">>,
      <<"B", "o", "a", " ", "V", "i", "s", "t", "a", " ", "d", "o", " ", "R", "a", "m", "o", "s">>,
      <<"N", "h", "a", "m", "u", "n", "d", "á">>,
      <<"F", "o", "n", "t", "e", " ", "B", "o", "a">>,
      <<"J", "a", "p", "u", "r", "á">>,
      <<"M", "a", "r", "a", "ã">>,
      <<"U", "a", "r", "i", "n", "i">>,
      <<"A", "l", "v", "a", "r", "ã", "e", "s">>,
      <<"C", "a", "r", "a", "u", "a", "r", "i">>,
      <<"I", "p", "i", "x", "u", "n", "a">>,
      <<"E", "i", "r", "u", "n", "e", "p", "é">>,
      <<"E", "n", "v", "i", "r", "a">>,
      <<"G", "u", "a", "j", "a", "r", "á">>,
      <<"A", "t", "a", "l", "a", "i", "a", " ", "d", "o", " ", "N", "o", "r", "t", "e">>,
      <<"S", "a", "n", "t", "o", " ", "A", "n", "t", "ô", "n", "i", "o", " ", "d", "o", " ", "I", "ç", "á">>,
      <<"A", "m", "a", "t", "u", "r", "á">>,
      <<"S", "ã", "o", " ", "P", "a", "u", "l", "o", " ", "d", "e", " ", "O", "l", "i", "v", "e", "n", "ç", "a">>,
      <<"T", "o", "n", "a", "n", "t", "i", "n", "s">>,
      <<"J", "u", "t", "a", "í">>,
      <<"B", "o", "c", "a", " ", "d", "o", " ", "A", "c", "r", "e">>,
      <<"P", "a", "u", "i", "n", "i">>,
      <<"C", "a", "n", "u", "t", "a", "m", "a">>,
      <<"T", "a", "p", "a", "u", "á">> }

coordenadas_municipios ==
    [m \in MunicipioNames |->
    IF m = <<"M", "a", "n", "a", "u", "s">> THEN [lat |-> -31190, lon |-> -600217] ELSE
    IF m = <<"P", "a", "r", "i", "n", "t", "i", "n", "s">> THEN [lat |-> -26287, lon |-> -567359] ELSE
    IF m = <<"I", "t", "a", "c", "o", "a", "t", "i", "a", "r", "a">> THEN [lat |-> -31386, lon |-> -584449] ELSE
    IF m = <<"M", "a", "n", "a", "c", "a", "p", "u", "r", "u">> THEN [lat |-> -32903, lon |-> -606216] ELSE
    IF m = <<"C", "o", "a", "r", "i">> THEN [lat |-> -40856, lon |-> -631414] ELSE
    IF m = <<"T", "e", "f", "é">> THEN [lat |-> -33684, lon |-> -647193] ELSE
    IF m = <<"T", "a", "b", "a", "t", "i", "n", "g", "a">> THEN [lat |-> -42316, lon |-> -699383] ELSE
    IF m = <<"M", "a", "u", "é", "s">> THEN [lat |-> -33839, lon |-> -577187] ELSE
    IF m = <<"H", "u", "m", "a", "i", "t", "á">> THEN [lat |-> -75117, lon |-> -630328] ELSE
    IF m = <<"L", "á", "b", "r", "e", "a">> THEN [lat |-> -72585, lon |-> -647977] ELSE
    IF m = <<"S", "ã", "o", " ", "G", "a", "b", "r", "i", "e", "l", " ", "d", "a", " ", "C", "a", "c", "h", "o", "e", "i", "r", "a">> THEN [lat |-> -1302, lon |-> -670890] ELSE
    IF m = <<"B", "e", "n", "j", "a", "m", "i", "n", " ", "C", "o", "n", "s", "t", "a", "n", "t">> THEN [lat |-> -43833, lon |-> -700333] ELSE
    IF m = <<"B", "o", "r", "b", "a">> THEN [lat |-> -43878, lon |-> -595939] ELSE
    IF m = <<"A", "u", "t", "a", "z", "e", "s">> THEN [lat |-> -35853, lon |-> -591256] ELSE
    IF m = <<"N", "o", "v", "a", " ", "O", "l", "i", "n", "d", "a", " ", "d", "o", " ", "N", "o", "r", "t", "e">> THEN [lat |-> -38889, lon |-> -590944] ELSE
    IF m = <<"C", "a", "r", "e", "i", "r", "o">> THEN [lat |-> -37681, lon |-> -603692] ELSE
    IF m = <<"I", "r", "a", "n", "d", "u", "b", "a">> THEN [lat |-> -32847, lon |-> -601858] ELSE
    IF m = <<"P", "r", "e", "s", "i", "d", "e", "n", "t", "e", " ", "F", "i", "g", "u", "e", "i", "r", "e", "d", "o">> THEN [lat |-> -20342, lon |-> -600234] ELSE
    IF m = <<"R", "i", "o", " ", "P", "r", "e", "t", "o", " ", "d", "a", " ", "E", "v", "a">> THEN [lat |-> -26981, lon |-> -597019] ELSE
    IF m = <<"N", "o", "v", "o", " ", "A", "i", "r", "ã", "o">> THEN [lat |-> -26361, lon |-> -609436] ELSE
    IF m = <<"S", "a", "n", "t", "a", " ", "I", "s", "a", "b", "e", "l", " ", "d", "o", " ", "R", "i", "o", " ", "N", "e", "g", "r", "o">> THEN [lat |-> -4139, lon |-> -650192] ELSE
    IF m = <<"B", "a", "r", "c", "e", "l", "o", "s">> THEN [lat |-> -9750, lon |-> -629239] ELSE
    IF m = <<"N", "o", "v", "o", " ", "A", "r", "i", "p", "u", "a", "n", "ã">> THEN [lat |-> -51258, lon |-> -603797] ELSE
    IF m = <<"A", "p", "u", "í">> THEN [lat |-> -71964, lon |-> -598914] ELSE
    IF m = <<"M", "a", "n", "i", "c", "o", "r", "é">> THEN [lat |-> -58092, lon |-> -613003] ELSE
    IF m = <<"B", "e", "r", "u", "r", "i">> THEN [lat |-> -38983, lon |-> -613733] ELSE
    IF m = <<"A", "n", "o", "r", "i">> THEN [lat |-> -37461, lon |-> -616442] ELSE
    IF m = <<"C", "o", "d", "a", "j", "á", "s">> THEN [lat |-> -38369, lon |-> -620569] ELSE
    IF m = <<"C", "a", "a", "p", "i", "r", "a", "n", "g", "a">> THEN [lat |-> -33153, lon |-> -612206] ELSE
    IF m = <<"U", "r", "u", "c", "u", "r", "i", "t", "u", "b", "a">> THEN [lat |-> -31286, lon |-> -581553] ELSE
    IF m = <<"U", "r", "u", "c", "a", "r", "á">> THEN [lat |-> -25364, lon |-> -577600] ELSE
    IF m = <<"S", "ã", "o", " ", "S", "e", "b", "a", "s", "t", "i", "ã", "o", " ", "d", "o", " ", "U", "a", "t", "u", "m", "ã">> THEN [lat |-> -25714, lon |-> -578714] ELSE
    IF m = <<"I", "t", "a", "p", "i", "r", "a", "n", "g", "a">> THEN [lat |-> -27489, lon |-> -580219] ELSE
    IF m = <<"S", "i", "l", "v", "e", "s">> THEN [lat |-> -28392, lon |-> -582092] ELSE
    IF m = <<"B", "a", "r", "r", "e", "i", "r", "i", "n", "h", "a">> THEN [lat |-> -27939, lon |-> -570703] ELSE
    IF m = <<"B", "o", "a", " ", "V", "i", "s", "t", "a", " ", "d", "o", " ", "R", "a", "m", "o", "s">> THEN [lat |-> -29714, lon |-> -575900] ELSE
    IF m = <<"N", "h", "a", "m", "u", "n", "d", "á">> THEN [lat |-> -21864, lon |-> -567131] ELSE
    IF m = <<"F", "o", "n", "t", "e", " ", "B", "o", "a">> THEN [lat |-> -25142, lon |-> -660919] ELSE
    IF m = <<"J", "a", "p", "u", "r", "á">> THEN [lat |-> -18264, lon |-> -665989] ELSE
    IF m = <<"M", "a", "r", "a", "ã">> THEN [lat |-> -18561, lon |-> -655806] ELSE
    IF m = <<"U", "a", "r", "i", "n", "i">> THEN [lat |-> -29900, lon |-> -651083] ELSE
    IF m = <<"A", "l", "v", "a", "r", "ã", "e", "s">> THEN [lat |-> -32211, lon |-> -648042] ELSE
    IF m = <<"C", "a", "r", "a", "u", "a", "r", "i">> THEN [lat |-> -48828, lon |-> -668958] ELSE
    IF m = <<"I", "p", "i", "x", "u", "n", "a">> THEN [lat |-> -70508, lon |-> -716950] ELSE
    IF m = <<"E", "i", "r", "u", "n", "e", "p", "é">> THEN [lat |-> -66619, lon |-> -698742] ELSE
    IF m = <<"E", "n", "v", "i", "r", "a">> THEN [lat |-> -74325, lon |-> -700225] ELSE
    IF m = <<"G", "u", "a", "j", "a", "r", "á">> THEN [lat |-> -75464, lon |-> -725842] ELSE
    IF m = <<"A", "t", "a", "l", "a", "i", "a", " ", "d", "o", " ", "N", "o", "r", "t", "e">> THEN [lat |-> -43703, lon |-> -701917] ELSE
    IF m = <<"S", "a", "n", "t", "o", " ", "A", "n", "t", "ô", "n", "i", "o", " ", "d", "o", " ", "I", "ç", "á">> THEN [lat |-> -31022, lon |-> -679400] ELSE
    IF m = <<"A", "m", "a", "t", "u", "r", "á">> THEN [lat |-> -33647, lon |-> -681978] ELSE
    IF m = <<"S", "ã", "o", " ", "P", "a", "u", "l", "o", " ", "d", "e", " ", "O", "l", "i", "v", "e", "n", "ç", "a">> THEN [lat |-> -33783, lon |-> -688725] ELSE
    IF m = <<"T", "o", "n", "a", "n", "t", "i", "n", "s">> THEN [lat |-> -28731, lon |-> -678019] ELSE
    IF m = <<"J", "u", "t", "a", "í">> THEN [lat |-> -27469, lon |-> -667669] ELSE
    IF m = <<"B", "o", "c", "a", " ", "d", "o", " ", "A", "c", "r", "e">> THEN [lat |-> -87525, lon |-> -673983] ELSE
    IF m = <<"P", "a", "u", "i", "n", "i">> THEN [lat |-> -77139, lon |-> -669764] ELSE
    IF m = <<"C", "a", "n", "u", "t", "a", "m", "a">> THEN [lat |-> -65342, lon |-> -643836] ELSE
    IF m = <<"T", "a", "p", "a", "u", "á">> THEN [lat |-> -56261, lon |-> -631825] ELSE
    [lat |-> 0, lon |-> 0]]

\* A court test that compares the whole label with the court names.
is_tribunal_exact(s) == \E i \in 1..Len(tribunais) : s = tribunais[i]

\* Python: any(tribunal in comarca_str for tribunal in tribunais), the loop
\* that returns None at the first court name found in the label.
is_tribunal(s) == \E i \in 1..Len(tribunais) : Contains(s, tribunais[i])

\* A resolver that returns None for a value that is not a text.
extrair_municipio_text_only(comarca) ==
    IF comarca = NaN \/ IsNumber(comarca) THEN NaN
    ELSE IF is_tribunal(comarca) THEN NaN
    ELSE IF StartsWith(comarca, ComarcaDePrefix)
         THEN Strip(Replace(comarca, ComarcaDePrefix, <<>>))
    ELSE IF StartsWith(comarca, ComarcaDePrefixUpper)
         THEN Strip(Replace(comarca, ComarcaDePrefixUpper, <<>>))
    ELSE comarca

\* extrair_municipio: the municipality a location label names, or NaN (None).
\* Nothing in it raises: pd.isna, str, the substring tests, startswith,
\* replace and strip are defined for every value.
extrair_municipio(comarca) ==
    LET comarca_str == str(comarca) IN
    IF comarca = NaN THEN NaN
    ELSE IF is_tribunal(comarca_str) THEN NaN
    ELSE IF StartsWith(comarca_str, ComarcaDePrefix)
         THEN Strip(Replace(comarca_str, ComarcaDePrefix, <<>>))
    ELSE IF StartsWith(comarca_str, ComarcaDePrefixUpper)
         THEN Strip(Replace(comarca_str, ComarcaDePrefixUpper, <<>>))
    ELSE comarca_str


(* ------------------------------ the charts ---------------------------- *)

\* A float that a division produced, kept exactly as a quotient of integers
\* with a positive divisor; nan marks the float NaN.
Quotient(n, d) == [nan |-> FALSE, num |-> n, den |-> d]

FloatNaN == [nan |-> TRUE, num |-> 0, den |-> 1]

\* top_assuntos_df['Quantidade'].max() * 1.2, the end of the x axis of the
\* ranking chart: the maximum of an empty column is NaN, and NaN * 1.2 is NaN.
range_max(t) ==
    IF t = <<>> THEN FloatNaN
    ELSE Quotient(12 * Max({t[i].count : i \in 1..Len(t)}), 10)

\* The colour intensity of bar i (from 0) of n bars:
\* 0.3 + 0.7 * ((n-1-i) / (n-1)) if n > 1 else 1.0
intensity(n, i) ==
    IF n > 1 THEN Quotient(3 * (n - 1) + 7 * (n - 1 - i), 10 * (n - 1))
    ELSE Quotient(10, 10)

\* for i in range(n): colors.append(...)
colors(n) == [k \in 1..n |-> intensity(n, k - 1)]

IsCountAscending(t) ==
    \A i \in 1..(Len(t) - 1) : t[i].count <= t[i + 1].count

\* top_assuntos_df.sort_values('Quantidade', ascending=True): the table by
\* count, smallest first; the default quicksort fixes no order among equal
\* counts.
sort_values_ascending(t) ==
    {s \in Orderings(Range(t)) : IsCountAscending(s)}

\* The ranking chart for the top subjects: the bars in the order of the
\* sorted table, each with its count x, the colours by position, and the end
\* of the x axis.  The labels of the bars are not kept: x is the same for
\* every order of the subjects with equal counts.
fig2_of(top) ==
    { [x         |-> [i \in 1..Len(s) |-> s[i].count],
       colors    |-> colors(Len(s)),
       range_max |-> range_max(s)] : s \in sort_values_ascending(top) }

\* The value of st.selectbox(label, options): one of the options, or None
\* when there is no option.
selectbox(options) == IF options = <<>> THEN {NaN} ELSE Range(options)

\* filtered_df[filtered_df[c] == v]: a comparison with a missing value, on
\* either side, is false.
rows_equal(d, c, v) ==
    LET Same(r) == r[c] # NaN /\ v # NaN /\ r[c] = v IN SelectSeq(d, Same)

\* A cross-tabulation that draws its chart without looking at the data.
crosstab_outcome_unguarded(data) == "chart"

\* if not classe_data.empty: the chart; else: st.info('Nenhum dado ...').
crosstab_outcome(data) == IF data = <<>> THEN "no_data" ELSE "chart"

\* if selected_assunto: the detail analysis runs for a selected subject that
\* is not None (an empty text cannot be a subject: it is read as missing).
detail_outcome(selected) == IF selected = NaN THEN "skipped" ELSE "chart"

(* ------------------------------ the map ------------------------------- *)

\* np.log10 of the counts 1..10, in ten-thousandths.
log10_table == <<0, 3010, 4771, 6021, 6990, 7782, 8451, 9031, 9542, 10000>>

np_log10(n) == log10_table[n]

\* A join that reads the count from the first row of the table.
map_data_first_count(counts) ==
    LET Indexed(e) == e.key \in DOMAIN coordenadas_municipios
        kept == SelectSeq(counts, Indexed)
    IN  [i \in 1..Len(kept) |->
            [Municipio  |-> kept[i].key,
             lat        |-> coordenadas_municipios[kept[i].key].lat,
             lon        |-> coordenadas_municipios[kept[i].key].lon,
             Quantidade |-> counts[1].count]]

\* The loop that builds map_data: a point for each municipality of the table
\* that has coordinates, in the order of the table, with the count of the
\* first row of the table that carries the name.
map_data(counts) ==
    LET Indexed(e) == e.key \in DOMAIN coordenadas_municipios
        kept == SelectSeq(counts, Indexed)
        first(m) == CHOOSE j \in 1..Len(counts) :
                        /\ counts[j].key = m
                        /\ \A k \in 1..(j - 1) : counts[k].key # m
    IN  [i \in 1..Len(kept) |->
            [Municipio  |-> kept[i].key,
             lat        |-> coordenadas_municipios[kept[i].key].lat,
             lon        |-> coordenadas_municipios[kept[i].key].lon,
             Quantidade |-> counts[first(kept[i].key)].count]]

min_size == 20

max_size == 80

\* Python: a / b for integers a >= 0 and b >= 0 of a pandas column; 0 / 0 is
\* NaN and raises nothing.
truediv(a, b) == IF b = 0 THEN FloatNaN ELSE Quotient(a, b)

\* min_size + x * (max_size - min_size) for a float x; NaN stays NaN.
scale(x) ==
    IF x.nan THEN FloatNaN
    ELSE Quotient(min_size * x.den + x.num * (max_size - min_size), x.den)

\* A marker size that grows as the count falls.
marker_sizes_inverted(m) ==
    LET q  == {m[i].Quantidade : i \in 1..Len(m)}
    IN  IF Len(m) > 1
        THEN [i \in 1..Len(m) |->
                 scale(truediv(Max(q) - m[i].Quantidade, Max(q) - Min(q)))]
        ELSE [i \in 1..Len(m) |-> Quotient(max_size, 1)]

\* map_df['size']: if len(map_df) > 1 the linear interpolation between
\* min_size and max_size, else max_size.
marker_sizes(m) ==
    LET q  == {m[i].Quantidade : i \in 1..Len(m)}
    IN  IF Len(m) > 1
        THEN [i \in 1..Len(m) |->
                 scale(truediv(m[i].Quantidade - Min(q), Max(q) - Min(q)))]
        ELSE [i \in 1..Len(m) |-> Quotient(max_size, 1)]

\* A colour domain taken from the counts themselves.
colour_domain_raw(m) ==
    LET q == {m[i].Quantidade : i \in 1..Len(m)}
    IN  <<10000 * Min(q), 10000 * Max(q)>>

\* <<cmin, cmax>> of the marker, in ten-thousandths:
\* cmin = np.log10(min) if min > 0 else 0, cmax = np.log10(max) if max > 0 else 1
colour_domain(m) ==
    LET q == {m[i].Quantidade : i \in 1..Len(m)}
    IN  << IF Min(q) > 0 THEN np_log10(Min(q)) ELSE 0,
           IF Max(q) > 0 THEN np_log10(Max(q)) ELSE 10000 >>

\* marker=dict(color=map_df['Quantidade'], cmin=..., cmax=...): the place on
\* the colour scale of a marker with the count q is q itself, kept within
\* the domain <<cmin, cmax>> (in ten-thousandths).
marker_colour(q, domain) ==
    LET v == 10000 * q
    IN  IF v < domain[1] THEN domain[1]
        ELSE IF v > domain[2] THEN domain[2]
        ELSE v

\* The data frame of the map: the points with their marker sizes.
with_sizes(m) ==
    LET sz == marker_sizes(m)
    IN  [i \in 1..Len(m) |->
            [Municipio |-> m[i].Municipio, lat |-> m[i].lat, lon |-> m[i].lon,
             Quantidade |-> m[i].Quantidade, size |-> sz[i]]]

\* go.Scattergeo(marker=dict(size=...)): a size that is NaN is an invalid
\* element for plotly versions that validate the column against its minimum
\* 0 (ValueError); the others draw no marker for it.
scattergeo_status(m) ==
    IF \E i \in 1..Len(m) : m[i].size.nan
    THEN {"ok", "ValueError_marker_size"}
    ELSE {"ok"}

(* ------------------------------ the inputs ---------------------------- *)

Row(p, cl, su, co, an) ==
    [Processo |-> p, Classe |-> cl, Assunto |-> su, Comarca |-> co, Ano |-> an]

\* The rows of the files of a session: rows with a valid year, and a row
\* without a case identifier.
SessionRows ==
    {
      \* a municipality of the index, a year with a fraction
      Row(<<"1">>, <<"A">>, <<"s", "1">>,
          <<"C", "o", "m", "a", "r", "c", "a", " ", "d", "e", " ", "T", "a", "p", "a", "u", "á">>,
          <<"2", "0", "2", "0", ".", "5">>),
      \* the other spelling of the prefix
      Row(<<"2">>, <<"B">>, <<"s", "2">>,
          <<"C", "o", "m", "a", "r", "c", "a", " ", "D", "e", " ", "M", "a", "n", "a", "u", "s">>,
          <<"2", "0", "2", "1">>),
      \* a court, not a municipality
      Row(<<"3">>, <<"A">>, <<"s", "2">>,
          <<"T", "r", "i", "b", "u", "n", "a", "l", " ", "D", "e", " ", "J", "u", "s", "t", "i", "ç", "a">>,
          <<"2", "0", "2", "1">>),
      \* a whitespace-only identifier, a prefix with no name
      Row(<<" ">>, <<"B">>, <<"s", "1">>,
          <<"C", "o", "m", "a", "r", "c", "a", " ", "d", "e", " ">>,
          <<"2", "0", "2", "0">>),
      \* a whitespace-only subject, the label 'Todos', the first valid year
      Row(<<"4">>, <<"A">>, <<" ">>,
          <<"T", "o", "d", "o", "s">>,
          <<"1", "9", "0", "0">>),
      \* no subject, no location, the last valid year
      Row(<<"5">>, <<"B">>, <<>>,
          <<>>,
          <<"2", "1", "0", "0">>),
      \* no case identifier
      Row(<<>>, <<"A">>, <<"s", "1">>,
          <<"C", "o", "m", "a", "r", "c", "a", " ", "d", "e", " ", "C", "o", "a", "r", "i">>,
          <<"2", "0", "2", "0">>) }

\* More rows the loader rejects: the years outside the range or without a
\* number, and an identifier that is a marker of a missing value.
LoaderRows ==
    {
      \* a year that is no number
      Row(<<"7">>, <<"A">>, <<"s", "1">>,
          <<"C", "o", "m", "a", "r", "c", "a", " ", "d", "e", " ", "T", "a", "p", "a", "u", "á">>,
          <<"a", "b", "c">>),
      \* a year after the valid range
      Row(<<"8">>, <<"A">>, <<"s", "1">>,
          <<"C", "o", "m", "a", "r", "c", "a", " ", "d", "e", " ", "T", "a", "p", "a", "u", "á">>,
          <<"2", "1", "0", "1">>),
      \* a year before the valid range
      Row(<<"9">>, <<"A">>, <<"s", "1">>,
          <<"C", "o", "m", "a", "r", "c", "a", " ", "d", "e", " ", "T", "a", "p", "a", "u", "á">>,
          <<"1", "8", "9", "9">>),
      \* no year
      Row(<<"1", "0">>, <<"A">>, <<"s", "1">>,
          <<"C", "o", "m", "a", "r", "c", "a", " ", "d", "e", " ", "T", "a", "p", "a", "u", "á">>,
          <<>>),
      \* an identifier that read_csv takes for a missing value
      Row(<<"N", "A">>, <<"B">>, <<"s", "2">>,
          <<"C", "o", "m", "a", "r", "c", "a", " ", "d", "e", " ", "T", "a", "p", "a", "u", "á">>,
          <<"2", "0", "2", "0">>) }

\* The rows of the files given to the loader.
FileRows == SessionRows \cup LoaderRows

\* The files over a set of rows: every sequence of at most MaxRows rows.
Files(rows) == UNION {[1..n -> rows] : n \in 0..MaxRows}

\* The rows of the files given to the map: one case per row, in one year,
\* with the location labels of three municipalities that have coordinates,
\* of a municipality that has none and of a court.
GeoRows ==
    { Row(<<"1">>, <<"A">>, <<"s", "1">>, co, <<"2", "0", "2", "0">>) :
        co \in { <<"C", "o", "m", "a", "r", "c", "a", " ", "d", "e", " ", "M", "a", "n", "a", "u", "s">>,
                 <<"C", "o", "m", "a", "r", "c", "a", " ", "D", "e", " ", "C", "o", "a", "r", "i">>,
                 <<"C", "o", "m", "a", "r", "c", "a", " ", "d", "e", " ", "T", "a", "p", "a", "u", "á">>,
                 <<"C", "o", "m", "a", "r", "c", "a", " ", "d", "e", " ", "B", "r", "a", "s", "i", "l", "e", "i", "a">>,
                 <<"T", "r", "i", "b", "u", "n", "a", "l", " ", "D", "e", " ", "J", "u", "s", "t", "i", "ç", "a">> } }

\* Largest number of rows of a file given to the map.
MaxGeoRows == 6

GeoFiles == UNION {[1..n -> GeoRows] : n \in 0..MaxGeoRows}

\* Rows that pass the loader and may lack a class, a subject or a location
\* label: an empty field is read as a missing value.
MissingRows ==
    { Row(<<"1">>, cl, su, co, <<"2", "0", "2", "0">>) :
        cl \in {<<"A">>, <<>>},
        su \in {<<"s", "1">>, <<>>},
        co \in {<<"C", "o", "m", "a", "r", "c", "a", " ", "d", "e", " ", "M", "a", "n", "a", "u", "s">>, <<>>} }

\* The classes and subjects of the rows of the end-to-end scenario, which
\* fixes the other three columns only.
ScenarioClasses == {<<"A">>, <<"B">>}

ScenarioAssuntos == {<<"s", "1">>, <<"s", "2">>}

\* The four rows of the end-to-end scenario.
ScenarioFiles ==
    { << Row(<<"1">>, cl[1], su[1], <<"C", "o", "m", "a", "r", "c", "a", " ", "d", "e", " ", "M", "a", "n", "a", "u", "s">>, <<"2", "0", "2", "0">>),
         Row(<<"2">>, cl[2], su[2], <<"C", "o", "m", "a", "r", "c", "a", " ", "d", "e", " ", "M", "a", "n", "a", "u", "s">>, <<"2", "0", "2", "0">>),
         Row(<<"3">>, cl[3], su[3], <<"T", "r", "i", "b", "u", "n", "a", "l", " ", "D", "e", " ", "J", "u", "s", "t", "i", "ç", "a">>, <<"2", "0", "2", "1">>),
         Row(<<>>, cl[4], su[4], <<"C", "o", "m", "a", "r", "c", "a", " ", "d", "e", " ", "C", "o", "a", "r", "i">>, <<"2", "0", "2", "0">>) >> :
        cl \in [1..4 -> ScenarioClasses], su \in [1..4 -> ScenarioAssuntos] }

\* The texts given to extrair_municipio: a beginning, a middle and an end.
LabelBeginnings ==
    { <<>>, ComarcaDePrefix, ComarcaDePrefixUpper, <<" ">>,
      <<"V", "a", "r", "a", " ", "d", "e", " ">> }

LabelMiddles ==
    Range(tribunais) \cup
    { <<>>,
      <<"M", "a", "n", "a", "u", "s">>,
      <<"C", "o", "a", "r", "i">>,
      <<"C", "o", "m", "a", "r", "c", "a", " ", "d", "e", " ", "M", "a", "n", "a", "u", "s">>,
      <<"C", "o", "m", "a", "r", "c", "a", " ", "D", "e", " ", "M", "a", "n", "a", "u", "s">>,
      <<"B", "o", "c", "a", " ", "d", "o", " ", "A", "c", "r", "e">> }

LabelEndings == { <<>>, <<" ">>, <<" ", "-", " ", "A", "M">> }

Labels ==
    { b \o m \o e : b \in LabelBeginnings, m \in LabelMiddles, e \in LabelEndings }

\* The values given to extrair_municipio: the texts, a missing value, and
\* integers.
ResolverInputs == Labels \cup {NaN} \cup {Number(n) : n \in {0, 7, 2020}}

\* The location labels a loaded frame can hold: the labels of the rows above
\* as pd.read_csv reads them.
ComarcaValues ==
    {read_csv_field(r.Comarca) :
        r \in FileRows \cup GeoRows \cup MissingRows
                  \cup UNION {Range(f) : f \in ScenarioFiles}}

\* extrair_municipio on each of these labels, computed once.
extrair_municipio_of == [c \in ComarcaValues |-> extrair_municipio(c)]

\* filtered_df['Comarca'].apply(extrair_municipio)
municipio_column(d) ==
    [i \in 1..Len(d) |-> extrair_municipio_of[d[i].Comarca]]

(* ------------------------------ the session --------------------------- *)

VARIABLES
    source,            \* whether Dataset.csv can be read, or how reading fails
    file,              \* the contents of Dataset.csv
    df,                \* the loaded frame, kept by st.cache_data
    year_range,        \* the value of the year slider, <<first, last>>
    selected_comarca,  \* the value of the location selectbox
    filtered_df,       \* the working set of the latest run
    yearly_counts,     \* the frequency table by year
    top_assuntos,      \* the ten most frequent subjects
    fig2,              \* the ranking chart: its bars, colours and axis end
    crosstab,          \* how the class/subject analyses of the run ended
    municipio,         \* the column 'Municipio' added to filtered_df
    municipio_counts,  \* the frequency table by municipality
    map_df,            \* the points of the map, with their marker sizes
    cmin_cmax,         \* <<cmin, cmax>> of the marker colour
    status,            \* how the latest run of the script ended
    last_event,        \* what started the latest run
    comarca,           \* the argument of a call of extrair_municipio
    resolved           \* the value the call returned

vars == <<source, file, df, year_range, selected_comarca, filtered_df,
          yearly_counts, top_assuntos, fig2, crosstab, municipio,
          municipio_counts, map_df, cmin_cmax, status, last_event,
          comarca, resolved>>

\* The total of the sidebar, len(df).
total_registros == Len(df)

\* How pd.read_csv ends: it reads the file, or raises because the file is
\* not there or cannot be parsed.
Sources == {"readable", "FileNotFoundError", "ParserError"}

\* sorted(filtered_df[c].unique().tolist()): unique() keeps a missing value
\* as a float NaN, and sorting a list that holds a float and a text raises a
\* TypeError.
sorted_raises(col) == NaN \in Range(col) /\ Len(unique(col)) >= 2

\* The runs in which the sidebar and the working set exist: every run but
\* the ones that stop in load_data or at int(df['Ano'].min()) on an empty
\* frame.
Ran == {"ok", "TypeError_classes_list", "TypeError_assuntos_list",
        "ValueError_marker_size"}

\* No chart of the ranking, no class/subject analysis.
NoFig == [x |-> <<>>, colors |-> <<>>, range_max |-> FloatNaN]

NoCrosstab == [classe |-> "none", assunto |-> "none", detalhe |-> "none"]

\* The run stops with the exception st before the sidebar exists: nothing
\* below is computed.
Stopped(st) ==
    /\ status' = st
    /\ year_range' = <<0, 0>>
    /\ selected_comarca' = Todos
    /\ filtered_df' = <<>>
    /\ yearly_counts' = <<>>
    /\ top_assuntos' = <<>>
    /\ fig2' = NoFig
    /\ crosstab' = NoCrosstab
    /\ municipio' = <<>>
    /\ municipio_counts' = <<>>
    /\ map_df' = <<>>
    /\ cmin_cmax' = <<>>

\* The run stops with the exception st at one of the sorted option lists:
\* the class/subject analyses and the map are not reached.
StoppedAtLists(st) ==
    /\ status' = st
    /\ crosstab' = NoCrosstab
    /\ municipio' = <<>>
    /\ municipio_counts' = <<>>
    /\ map_df' = <<>>
    /\ cmin_cmax' = <<>>

\* Sections 3 and 4 on the working set d, for every class and subject the
\* selectboxes can return (the class and the subject of the two
\* cross-tabulations, the subject of the detail analysis): how they end.
analyses(d) ==
    LET top_assuntos_lists ==
            {[i \in 1..Len(head(t, TopN)) |-> head(t, TopN)[i].key] :
                t \in value_counts(Column(d, "Assunto"))}
    IN  { [classe  |-> crosstab_outcome(rows_equal(d, "Classe", cl)),
           assunto |-> crosstab_outcome(rows_equal(d, "Assunto", su)),
           detalhe |-> detail_outcome(de)] :
            cl \in selectbox(unique(Column(d, "Classe"))),
            su \in selectbox(unique(Column(d, "Assunto"))),
            de \in UNION {selectbox(l) : l \in top_assuntos_lists} }

\* The map section: the column Municipio, its counts, the points that have
\* coordinates, their sizes and the colour domain; without a point, a
\* warning and no figure.
Mapa ==
    /\ municipio' = municipio_column(filtered_df')
    /\ \E t \in value_counts(municipio') : municipio_counts' = t
    /\ map_df' = IF municipio_counts' # <<>>
                 THEN with_sizes(map_data(municipio_counts'))
                 ELSE <<>>
    /\ IF map_df' # <<>>
       THEN /\ cmin_cmax' = colour_domain(map_df')
            /\ status' \in scattergeo_status(map_df')
       ELSE /\ cmin_cmax' = <<>>
            /\ status' = "ok"

\* One run of the script, top to bottom, on the loaded frame d with the
\* widget values yr and sel.
Script(d, yr, sel) ==
    IF d = <<>>
    THEN \* min_year = int(df['Ano'].min()) raises ValueError on NaN
         Stopped("ValueError_min_year")
    ELSE /\ year_range' = yr
         /\ selected_comarca' = sel
         /\ filtered_df' = apply_filters(filter_source(d, filtered_df), yr, sel)
         /\ yearly_counts' =
                sort_index(CHOOSE t \in value_counts_int(Column(filtered_df', "Ano")) : TRUE)
         /\ \E t \in value_counts(Column(filtered_df', "Assunto")) :
                top_assuntos' = head(t, TopN)
         /\ fig2' \in fig2_of(top_assuntos')
         /\ IF sorted_raises(Column(filtered_df', "Classe"))
            THEN StoppedAtLists("TypeError_classes_list")
            ELSE IF sorted_raises(Column(filtered_df', "Assunto"))
            THEN StoppedAtLists("TypeError_assuntos_list")
            ELSE /\ crosstab' \in analyses(filtered_df')
                 /\ Mapa

\* The value of resolved before extrair_municipio is called.
NotCalled == <<"not called">>

\* Before the first run: nothing is loaded and nothing is computed.
NotStarted ==
    /\ df = <<>>
    /\ year_range = <<0, 0>>
    /\ selected_comarca = Todos
    /\ filtered_df = <<>>
    /\ yearly_counts = <<>>
    /\ top_assuntos = <<>>
    /\ fig2 = NoFig
    /\ crosstab = NoCrosstab
    /\ municipio = <<>>
    /\ municipio_counts = <<>>
    /\ map_df = <<>>
    /\ cmin_cmax = <<>>
    /\ status = "init"
    /\ last_event = "none"

\* A session over one of the given files, or over a file that cannot be
\* read; extrair_municipio is called by the script only.
Session(files) ==
    /\ \/ source = "readable" /\ file \in files
       \/ source \in Sources \ {"readable"} /\ file = <<>>
    /\ NotStarted
    /\ comarca = NaN
    /\ resolved = NotCalled

Init == Session(Files(SessionRows))

\* The first run of a session: the file is loaded and the widgets take their
\* defaults, the full range of years and 'Todos'.  An exception of
\* pd.read_csv is caught nowhere: it ends the run inside load_data.
FirstRun ==
    /\ status = "init"
    /\ last_event' = "first_run"
    /\ IF source = "readable"
       THEN /\ df' = load_data(file)
            /\ IF df' = <<>>
               THEN Script(df', <<0, 0>>, Todos)
               ELSE Script(df', <<min_year(df'), max_year(df')>>, Todos)
       ELSE /\ df' = <<>>
            /\ Stopped(source)
    /\ UNCHANGED <<source, file, comarca, resolved>>

\* The user moves the year slider; the script runs again.  The slider stops
\* tried are the years that occur in the loaded frame.
ChangeYearRange ==
    /\ status \in Ran
    /\ \E lo, hi \in Range(Column(df, "Ano")) :
          /\ lo <= hi
          /\ <<lo, hi>> # year_range
          /\ Script(df, <<lo, hi>>, selected_comarca)
    /\ last_event' = "year_range"
    /\ UNCHANGED <<source, file, df, comarca, resolved>>

\* The user picks another entry of the location selectbox; the script runs
\* again.
SelectComarca ==
    /\ status \in Ran
    /\ \E c \in comarcas(df) :
          /\ c # selected_comarca
          /\ Script(df, year_range, c)
    /\ last_event' = "comarca"
    /\ UNCHANGED <<source, file, df, comarca, resolved>>

Next == FirstRun \/ ChangeYearRange \/ SelectComarca

Spec == Init /\ [][Next]_vars

\* The loader alone, on files that also hold the years it rejects: the
\* first run of a session and nothing after it.
InitLoader == Session(Files(FileRows))

NextLoader == FirstRun

SpecLoader == InitLoader /\ [][NextLoader]_vars

\* The map alone, on files of up to MaxGeoRows rows that differ in their
\* location label only: the first run of a session.
InitGeo == Session(GeoFiles)

NextGeo == FirstRun

SpecGeo == InitGeo /\ [][NextGeo]_vars

\* The script on valid rows with missing fields: the first run of a session.
InitMissing == Session(Files(MissingRows))

NextMissing == FirstRun

SpecMissing == InitMissing /\ [][NextMissing]_vars

\* The end-to-end scenario: the first run of a session over its four rows.
InitScenario ==
    /\ source = "readable"
    /\ file \in ScenarioFiles
    /\ NotStarted
    /\ comarca = NaN
    /\ resolved = NotCalled

NextScenario == FirstRun

SpecScenario == InitScenario /\ [][NextScenario]_vars

\* extrair_municipio alone: one call, on each of the values.
InitResolve ==
    /\ comarca \in ResolverInputs
    /\ resolved = NotCalled
    /\ source = "readable"
    /\ file = <<>>
    /\ NotStarted

Resolve ==
    /\ resolved = NotCalled
    /\ resolved' = extrair_municipio(comarca)
    /\ UNCHANGED <<source, file, df, year_range, selected_comarca, filtered_df,
                   yearly_counts, top_assuntos, fig2, crosstab, municipio,
                   municipio_counts, map_df, cmin_cmax, status, last_event,
                   comarca>>

NextResolve == Resolve

SpecResolve == InitResolve /\ [][NextResolve]_vars

(* ------------------------------ properties ---------------------------- *)

\* How many times the value r occurs in the sequence s.
Occurrences(s, r) == Cardinality({i \in 1..Len(s) : s[i] = r})

\* The filter condition on a record, for the current widget values.
KeptByFilter(r) ==
    /\ year_range[1] <= r.Ano
    /\ r.Ano <= year_range[2]
    /\ (selected_comarca # Todos => r.Comarca = selected_comarca)

\* The year text of a file row is a number from 1900 to 2100.
ValidYearText(text) ==
    LET x == to_numeric(read_csv_field(text)) IN
    ~x.isnan /\ ~x.neg /\ 1900 <= x.int /\ (x.int < 2100 \/ (x.int = 2100 /\ ~x.frac))

\* The case identifier of a file row is read as a value, not as missing.
IdentifierPresent(text) == read_csv_field(text) # NaN

\* The rows of the file that have an identifier and a valid year.
ValidFileRows ==
    {i \in 1..Len(file) :
        IdentifierPresent(file[i].Processo) /\ ValidYearText(file[i].Ano)}

\* C1: the working set holds exactly the loaded records whose year lies in
\* the slider's range, both ends included, and, unless the selectbox shows
\* 'Todos', whose location label equals the selected one verbatim: each such
\* record as often as it was loaded, and no other record.
C1_WorkingSetExact ==
    status \in Ran =>
        \A r \in Range(df) \cup Range(filtered_df) :
            Occurrences(filtered_df, r) =
                IF KeptByFilter(r) THEN Occurrences(df, r) ELSE 0

\* A one-year range and a selected label keep a record, while a record of
\* that year with another label and a record of another year are left out.
C1_Witness ==
    /\ status \in Ran
    /\ selected_comarca # Todos
    /\ filtered_df # <<>>
    /\ \E r \in Range(filtered_df) :
          r.Ano = year_range[1] /\ r.Ano = year_range[2]
    /\ \E r \in Range(df) :
          r.Ano = year_range[1] /\ r.Comarca # selected_comarca
    /\ \E r \in Range(df) : r.Ano > year_range[2] \/ r.Ano < year_range[1]

\* C2: after any sequence of filter changes the loaded frame is still what
\* the loader made of the file, and the working set is the filter applied to
\* it with the current widget values only.
C2_DerivedFromLoaded ==
    status \in Ran =>
        /\ df = load_data(file)
        /\ filtered_df = SelectSeq(load_data(file), KeptByFilter)

\* The slider was moved back to the full range after a narrower one, and
\* the working set is the whole loaded frame again.
C2_Witness ==
    /\ status \in Ran
    /\ last_event = "year_range"
    /\ selected_comarca = Todos
    /\ year_range[1] < year_range[2]
    /\ year_range = <<Min(Range(Column(df, "Ano"))), Max(Range(Column(df, "Ano")))>>
    /\ filtered_df = df

\* C3: with the slider on the first and last year of the loaded frame and
\* 'Todos' selected, the working set is the loaded frame, row for row.
C3_FullRangeIdentity ==
    (/\ status \in Ran
     /\ selected_comarca = Todos
     /\ year_range = <<Min(Range(Column(df, "Ano"))), Max(Range(Column(df, "Ano")))>>)
        => filtered_df = df

\* The full range over a frame of three rows, two of them equal, in two
\* different years.
C3_Witness ==
    /\ status \in Ran
    /\ selected_comarca = Todos
    /\ Len(df) = 3
    /\ year_range = <<Min(Range(Column(df, "Ano"))), Max(Range(Column(df, "Ano")))>>
    /\ year_range[1] < year_range[2]
    /\ \E r \in Range(df) : Occurrences(df, r) = 2
    /\ Len(filtered_df) = 3

\* C4: the filter is idempotent: for the loaded frame and every choice of
\* the widgets, filtering the filtered frame again changes nothing; so it is
\* for the working set of the latest run.
C4_FilterIdempotent ==
    status \in Ran =>
        /\ apply_filters(filtered_df, year_range, selected_comarca) = filtered_df
        /\ \A lo, hi \in Range(Column(df, "Ano")) : \A c \in comarcas(df) :
              lo <= hi =>
                  apply_filters(apply_filters(df, <<lo, hi>>, c), <<lo, hi>>, c)
                      = apply_filters(df, <<lo, hi>>, c)

\* A filter that keeps two records and leaves one out.
C4_Witness ==
    /\ status \in Ran
    /\ Len(filtered_df) = 2
    /\ Len(df) = 3

C6_LoadedYearValid ==
    status # "init" =>
        \A r \in Range(df) :
            /\ r.Ano \in 1900..2100
            /\ \E i \in ValidFileRows :
                  /\ file[i].Processo = r.Processo
                  /\ to_numeric(file[i].Ano).int = r.Ano

\* A file with a year that is no number and a year outside the range, and a
\* loaded record at the end of the range or with a truncated year.
C6_Witness ==
    /\ status # "init"
    /\ \E i \in 1..Len(file) :
          IdentifierPresent(file[i].Processo) /\ to_numeric(file[i].Ano).isnan
    /\ \E i \in 1..Len(file) :
          /\ IdentifierPresent(file[i].Processo)
          /\ ~to_numeric(file[i].Ano).isnan
          /\ ~ValidYearText(file[i].Ano)
    /\ \E r \in Range(df) : r.Ano = 2100 \/ r.Ano = 1900

\* C7, as stated: a row with an identifier and an invalid year stays in the
\* loaded set, so that the total of the sidebar counts every row that has an
\* identifier.
C7_InvalidYearRowKept ==
    status # "init" =>
        total_registros =
            Cardinality({i \in 1..Len(file) : IdentifierPresent(file[i].Processo)})

\* C7, amended: a row with an identifier and an invalid year is dropped from
\* the loaded set altogether, and the total of the sidebar counts the rows
\* with an identifier and a valid year only.
C7_InvalidYearRowDropped ==
    status # "init" =>
        /\ \A i \in 1..Len(file) :
              (IdentifierPresent(file[i].Processo) /\ ~ValidYearText(file[i].Ano))
                  => file[i].Processo \notin Range(Column(df, "Processo"))
        /\ total_registros = Cardinality(ValidFileRows)

\* The script ran to its end on a file that has a row with an identifier and
\* no year next to a valid row.
C7_Witness ==
    /\ status = "ok"
    /\ df # <<>>
    /\ \E i \in 1..Len(file) :
          IdentifierPresent(file[i].Processo) /\ file[i].Ano = <<>>

\* The sum of the counts of a frequency table.
RECURSIVE SumCounts(_)
SumCounts(t) == IF t = <<>> THEN 0 ELSE Head(t).count + SumCounts(Tail(t))

\* The table t counts the column col, which has nonnull values that are not
\* missing: distinct keys, exact counts, counts that add up to nonnull.
TableSound(t, col, nonnull) ==
    /\ \A i, j \in 1..Len(t) : i # j => t[i].key # t[j].key
    /\ \A i \in 1..Len(t) : t[i].count = Occurrences(col, t[i].key)
    /\ SumCounts(t) = nonnull

\* The number of values of a column of texts that are not missing.
NonNull(col) == Cardinality({j \in 1..Len(col) : col[j] # NaN})

\* C8: every untruncated frequency table (by year, by subject while there
\* are at most ten subjects, by municipality) has pairwise distinct keys,
\* counts equal to the number of rows of the working set with that key, and
\* counts that sum to the number of rows whose field is not missing.
C8_FrequencyTableSound ==
    status \in Ran =>
        /\ TableSound(yearly_counts, Column(filtered_df, "Ano"), Len(filtered_df))
        /\ Len(unique(dropna(Column(filtered_df, "Assunto")))) <= TopN =>
              TableSound(top_assuntos, Column(filtered_df, "Assunto"),
                         NonNull(Column(filtered_df, "Assunto")))
        /\ status = "ok" =>
              TableSound(municipio_counts, municipio, NonNull(municipio))

\* A working set of two years in which a municipality counts two records and
\* a record has no municipality.
C8_Witness ==
    /\ status = "ok"
    /\ Len(yearly_counts) >= 2
    /\ \E i \in 1..Len(municipio_counts) : municipio_counts[i].count = 2
    /\ NaN \in Range(municipio)
    /\ top_assuntos # <<>>

\* C9, as stated: no frequency table has a key that is missing, empty or
\* whitespace-only.
C9_NoBlankKey ==
    status \in Ran =>
        \A e \in Range(top_assuntos) \cup Range(municipio_counts) :
            e.key # NaN /\ Strip(e.key) # <<>>

\* The position of an entry in a table.
Position(t, e) == CHOOSE i \in 1..Len(t) : t[i] = e

\* The table by count, largest first, keys of equal count in the order of
\* the table t (a stable sort).
StableDescending(t) ==
    CHOOSE s \in Orderings(Range(t)) :
        \A i, j \in 1..Len(s) :
            i < j => \/ s[i].count > s[j].count
                     \/ /\ s[i].count = s[j].count
                        /\ Position(t, s[i]) < Position(t, s[j])

IsText(v) == v # NaN /\ ~IsNumber(v)

\* The text s is some text, then t, then some text.
HasSubstring(s, t) ==
    \E i \in 0..(Len(s) - Len(t)) :
        s = SubSeq(s, 1, i) \o t \o SubSeq(s, i + Len(t) + 1, Len(s))

\* The label holds one of the court names.
NamesTribunal(s) == \E i \in 1..Len(tribunais) : HasSubstring(s, tribunais[i])

\* C11: extrair_municipio returns None for every label that holds a court
\* name of the list tribunais, whatever text comes before or after the name,
\* also when the label begins with 'Comarca de ' or 'Comarca De '.
C11_TribunalExcluded ==
    (resolved # NotCalled /\ IsText(comarca) /\ NamesTribunal(comarca))
        => resolved = NaN

\* A label that begins with 'Comarca de ', goes on with a court name and
\* ends with more text was resolved to None.
C11_Witness ==
    /\ resolved = NaN
    /\ \E k \in 1..Len(tribunais) : \E e \in LabelEndings \ {<<>>} :
          comarca = ComarcaDePrefix \o tribunais[k] \o e

\* The label without the prefix 'Comarca de ' or 'Comarca De ' it begins
\* with, if it begins with one.
WithoutLeadingPrefix(s) ==
    IF StartsWith(s, ComarcaDePrefix) \/ StartsWith(s, ComarcaDePrefixUpper)
    THEN SubSeq(s, Len(ComarcaDePrefix) + 1, Len(s))
    ELSE s

\* C12, as stated: for a label that holds no court name, extrair_municipio
\* returns the label without its leading prefix, if it has one, trimmed of
\* leading and trailing whitespace; occurrences of the prefix further inside
\* the label are kept, and a label without the prefix is trimmed too.
C12_LeadingPrefixOnly ==
    (resolved # NotCalled /\ IsText(comarca) /\ ~NamesTribunal(comarca))
        => resolved = Strip(WithoutLeadingPrefix(comarca))

\* C13, as stated: extrair_municipio returns a value for every text, and
\* None for every value that is not a text, a number included.
C13_NullForNonText ==
    resolved # NotCalled =>
        /\ resolved = NaN \/ Range(resolved) \subseteq Range(str(comarca))
        /\ ~IsText(comarca) => resolved = NaN

\* C13, amended: extrair_municipio returns a value for every text (None or
\* a text made of characters of the label) and None for a missing value; a
\* number is not resolved to None: it is resolved to the text of its digits.
C13_NullForMissingOnly ==
    resolved # NotCalled =>
        /\ IsText(comarca) =>
              resolved = NaN \/ Range(resolved) \subseteq Range(comarca)
        /\ comarca = NaN => resolved = NaN
        /\ IsNumber(comarca) =>
              /\ resolved # NaN
              /\ AllDigits(resolved)
              /\ DigitsValue(resolved) = comarca[2]

\* The number 2020 was resolved to the text '2020'.
C13_Witness ==
    /\ comarca = Number(2020)
    /\ resolved = <<"2", "0", "2", "0">>

\* The runs that reach the map section.
ReachedMap == {"ok", "ValueError_marker_size"}

\* The counts of the points of the map.
Quantidades == {map_df[i].Quantidade : i \in 1..Len(map_df)}

\* C14: the map has exactly one point for each municipality that has
\* coordinates and to which at least one record of the working set
\* resolves; the point carries the coordinates of the municipality and the
\* number of records that resolve to it; a resolved name without coordinates
\* gives no point, and the run does not stop for it.
C14_GeoPointsJoin ==
    status \in ReachedMap =>
        /\ \A m \in MunicipioNames :
              IF m \in Range(municipio)
              THEN \E i \in 1..Len(map_df) :
                      /\ map_df[i].Municipio = m
                      /\ map_df[i].lat = coordenadas_municipios[m].lat
                      /\ map_df[i].lon = coordenadas_municipios[m].lon
                      /\ map_df[i].Quantidade = Occurrences(municipio, m)
                      /\ \A j \in 1..Len(map_df) :
                            map_df[j].Municipio = m => j = i
              ELSE \A i \in 1..Len(map_df) : map_df[i].Municipio # m
        /\ \A i \in 1..Len(map_df) : map_df[i].Municipio \in MunicipioNames

\* Two municipalities with coordinates, one of them with two records or
\* more, next to records of a municipality without coordinates and of a
\* court: the map has the two points, Manaus at its coordinates.
C14_Witness ==
    /\ status = "ok"
    /\ Len(map_df) = 2
    /\ \E i \in 1..Len(map_df) :
          /\ map_df[i].Municipio = <<"M", "a", "n", "a", "u", "s">>
          /\ map_df[i].lat = -31190
          /\ map_df[i].lon = -600217
          /\ map_df[i].Quantidade >= 2
    /\ NaN \in Range(municipio)
    /\ \E m \in Range(municipio) : m # NaN /\ m \notin MunicipioNames

\* The size is the number n.
SizeIs(sz, n) == ~sz.nan /\ sz.num = n * sz.den

\* The size a is at most the size b.
SizeLE(a, b) == ~a.nan /\ ~b.nan /\ a.num * b.den <= b.num * a.den

\* C15, as stated: when all the points of the map have the same count, one
\* point or several, every marker size is 80, none is undefined, and the map
\* is drawn.
C15_EqualCountsMaxSize ==
    (status \in ReachedMap /\ map_df # <<>> /\ Cardinality(Quantidades) = 1)
        => /\ \A i \in 1..Len(map_df) : SizeIs(map_df[i].size, max_size)
           /\ status = "ok"

\* C16: when the counts of the points differ, the marker size is 20 for a
\* point with the smallest count, 80 for a point with the largest, from 20
\* to 80 for every point, and a point with a count at most another's has a
\* size at most the other's.
C16_SizeInterpolated ==
    (status \in ReachedMap /\ Cardinality(Quantidades) > 1) =>
        /\ \A i \in 1..Len(map_df) :
              /\ ~map_df[i].size.nan
              /\ map_df[i].Quantidade = Min(Quantidades)
                    => SizeIs(map_df[i].size, 20)
              /\ map_df[i].Quantidade = Max(Quantidades)
                    => SizeIs(map_df[i].size, 80)
              /\ SizeLE(Quotient(20, 1), map_df[i].size)
              /\ SizeLE(map_df[i].size, Quotient(80, 1))
        /\ \A i, j \in 1..Len(map_df) :
              map_df[i].Quantidade <= map_df[j].Quantidade
                  => SizeLE(map_df[i].size, map_df[j].size)

\* Three points with the counts 1, 2 and 3: the sizes are 20, 50 and 80.
C16_Witness ==
    /\ status = "ok"
    /\ Len(map_df) = 3
    /\ Quantidades = {1, 2, 3}
    /\ \E i \in 1..3 :
          map_df[i].Quantidade = 2 /\ SizeIs(map_df[i].size, 50)

\* C17: when the map has a point, the colour domain is <<lower, upper>>,
\* lower being 0 if the smallest count is at most 0 and its log10 otherwise,
\* upper being the log10 of the largest count if that is positive and 1
\* otherwise; lower is at most upper, and the log10 of no count below 1 is
\* taken (the table has no entry for one).
C17_ColourDomain ==
    (status \in ReachedMap /\ map_df # <<>>) =>
        LET countMin == Min(Quantidades)
            countMax == Max(Quantidades)
            lower == IF countMin <= 0 THEN 0 ELSE log10_table[countMin]
            upper == IF countMax > 0 THEN log10_table[countMax] ELSE 10000
        IN  /\ cmin_cmax = <<lower, upper>>
            /\ lower <= upper
            /\ countMin < countMax => lower < upper

\* Counts from 1 to 3 on the map: the domain is from 0 to log10(3).
C17_Witness ==
    /\ status = "ok"
    /\ Quantidades = {1, 3}
    /\ cmin_cmax = <<0, 4771>>

\* The first run over the scenario has loaded three rows, counted two cases
\* in 2020 and one in 2021, and put one point on the map: Manaus, with count
\* 2 and size 80; there is no point for Coari or for the court.
ScenarioOutcome ==
    /\ status = "ok"
    /\ Len(df) = 3
    /\ yearly_counts = <<[key |-> 2020, count |-> 2], [key |-> 2021, count |-> 1]>>
    /\ Len(map_df) = 1
    /\ map_df[1].Municipio = <<"M", "a", "n", "a", "u", "s">>
    /\ map_df[1].Quantidade = 2
    /\ SizeIs(map_df[1].size, 80)

\* C18, as stated: the scenario ends with three loaded rows, the yearly
\* counts [(2020, 2), (2021, 1)] and the one point Manaus with count 2 and
\* size 80, and the colour domain is [0, 1].
C18_ScenarioDomainZeroOne ==
    status # "init" => ScenarioOutcome /\ cmin_cmax = <<0, 10000>>

\* C18, amended: the scenario ends with three loaded rows, the yearly counts
\* [(2020, 2), (2021, 1)] and the one point Manaus with count 2 and size 80,
\* and the colour domain is [log10(2), log10(2)], about [0.301, 0.301].
C18_ScenarioDomainLog ==
    status # "init" => ScenarioOutcome /\ cmin_cmax = <<3010, 3010>>

\* The script ran to its end over the four rows of the scenario, with the
\* full range of years and no location filter.
C18_Witness ==
    /\ status = "ok"
    /\ last_event = "first_run"
    /\ Len(file) = 4
    /\ year_range = <<2020, 2021>>
    /\ selected_comarca = Todos
    /\ filtered_df = df
    /\ NaN \in Range(municipio)

\* C19, as stated: when the file cannot be read the loader raises nothing,
\* returns an empty frame and signals SourceUnavailable, and no run computes
\* the bounds of the year slider from an empty loaded frame.
C19_SourceUnavailableSignalled ==
    status # "init" =>
        /\ source # "readable" => status = "SourceUnavailable" /\ df = <<>>
        /\ status # "ValueError_min_year"

\* C20: when a run has a working set and it is empty, the run goes to its
\* end: the yearly counts and the top subjects are empty, the ranking chart
\* has no bar (the end of its axis is NaN, no intensity is computed), both
\* cross-tabulations report that there is no data, the detail analysis is
\* skipped, the municipality counts are empty and the map has no point.
C20_EmptyWorkingSetTolerated ==
    (status \in Ran /\ filtered_df = <<>>) =>
        /\ status = "ok"
        /\ yearly_counts = <<>>
        /\ top_assuntos = <<>>
        /\ fig2 = [x |-> <<>>, colors |-> <<>>, range_max |-> FloatNaN]
        /\ crosstab = [classe |-> "no_data", assunto |-> "no_data",
                       detalhe |-> "skipped"]
        /\ municipio = <<>>
        /\ municipio_counts = <<>>
        /\ map_df = <<>>
        /\ cmin_cmax = <<>>

\* A location is selected and the slider was moved to years in which the
\* location has no record, while the loaded frame has records.
C20_Witness ==
    /\ status = "ok"
    /\ last_event = "year_range"
    /\ selected_comarca # Todos
    /\ filtered_df = <<>>
    /\ \E r \in Range(df) : r.Comarca = selected_comarca
    /\ \E r \in Range(df) :
          year_range[1] <= r.Ano /\ r.Ano <= year_range[2]

\* C21, as stated: a run over a loaded frame that has a record, also one
\* whose class, subject or location label is missing, goes to its end: the
\* sorted lists of classes and subjects, the frequency tables and the map
\* are built and nothing raises.
C21_NoDownstreamFailure ==
    (status # "init" /\ df # <<>>) => status = "ok"

\* C22, as stated: when the counts of the points of the map differ, a point
\* with the smallest count and a point with the largest have different
\* places on the colour scale.
C22_ColourDistinguishable ==
    (status \in ReachedMap /\ Cardinality(Quantidades) > 1) =>
        marker_colour(Min(Quantidades), cmin_cmax)
            # marker_colour(Max(Quantidades), cmin_cmax)

\* C23, as stated: the colour intensities of the bars of the ranking chart
\* lie from 0.3 to 1.0, the intensity of a single bar is 1.0, and a bar with
\* a smaller count than another's has an intensity at most the other's, so
\* that the largest count has the strongest colour and the smallest the
\* weakest.
C23_StrongestForLargest ==
    status \in Ran =>
        /\ Len(fig2.colors) = Len(fig2.x)
        /\ \A i \in 1..Len(fig2.x) :
              /\ SizeLE(Quotient(3, 10), fig2.colors[i])
              /\ SizeLE(fig2.colors[i], Quotient(10, 10))
        /\ Len(fig2.x) = 1 => SizeIs(fig2.colors[1], 1)
        /\ \A i, j \in 1..Len(fig2.x) :
              fig2.x[i] < fig2.x[j] => SizeLE(fig2.colors[i], fig2.colors[j])

\* C24: every entry of a frequency table and every point of the map has a
\* count of at least 1; so, when the map has a point, the smallest and the
\* largest count are at least 1 and the colour domain is made of their
\* log10: the bounds kept for counts that are not positive, 0 and 1, are
\* not used.
C24_CountsPositive ==
    status \in Ran =>
        /\ \A i \in 1..Len(yearly_counts) : yearly_counts[i].count >= 1
        /\ \A i \in 1..Len(top_assuntos) : top_assuntos[i].count >= 1
        /\ \A i \in 1..Len(municipio_counts) : municipio_counts[i].count >= 1
        /\ \A i \in 1..Len(map_df) : map_df[i].Quantidade >= 1
        /\ map_df # <<>> =>
              /\ Min(Quantidades) >= 1
              /\ Max(Quantidades) >= 1
              /\ cmin_cmax = <<log10_table[Min(Quantidades)],
                               log10_table[Max(Quantidades)]>>

\* Two points or more, the smallest count being 1: the lower bound of the
\* colour domain is 0 as log10(1), the upper bound is the log10 of a larger
\* count.
C24_Witness ==
    /\ status = "ok"
    /\ Len(map_df) >= 2
    /\ Min(Quantidades) = 1
    /\ Max(Quantidades) > 1
    /\ cmin_cmax[1] = 0
    /\ cmin_cmax[2] > 0

\* C25, as stated: after the user has selected a location label that occurs
\* in the loaded frame, the label 'Todos' included, the working set holds
\* only records with that label.
C25_EveryLabelSelectable ==
    (/\ status \in Ran
     /\ last_event = "comarca"
     /\ selected_comarca \in Range(Column(df, "Comarca")) \ {NaN})
        => \A r \in Range(filtered_df) : r.Comarca = selected_comarca

=============================================================================
